---- MODULE Spec2Model ----
(***************************************************************************)
(* Model of Convert_multiple_json_files.py: a Streamlit script that reads  *)
(* uploaded JSON files, derives column headers from the first one, lets    *)
(* the user edit them and exports the files as CSV, Excel or JSON.         *)
(*                                                                         *)
(* Text is a sequence of one-character strings.  The bytes of an uploaded  *)
(* file are a sequence of lexical tokens [k, s]: k is the token kind and s *)
(* the characters between the quotes of a string or the digits of a        *)
(* number.  A JSON value is a record [t, s, n, items, fields] with the     *)
(* same five fields whatever its type t.                                   *)
(***************************************************************************)
EXTENDS Integers, Sequences, FiniteSets, TLC

\* ------------------------------------------------------------------ bounds

\* The most files one request uploads.
MaxFiles == 2

\* ------------------------------------------------------------- characters

NL == "\n"
CR == "\r"
BS == "\\"
QT == "\""

Digits == <<"0", "1", "2", "3", "4", "5", "6", "7", "8", "9">>

RECURSIVE Concat(_)
Concat(seqs) ==
  IF seqs = <<>> THEN <<>> ELSE Head(seqs) \o Concat(Tail(seqs))

\* sep.join(parts)
RECURSIVE Join(_, _)
Join(sep, parts) ==
  IF parts = <<>> THEN <<>>
  ELSE IF Len(parts) = 1 THEN parts[1]
  ELSE parts[1] \o sep \o Join(sep, Tail(parts))

\* text.replace(old, new) for a one-character old
RECURSIVE Replace(_, _, _)
Replace(text, old, new) ==
  IF text = <<>> THEN <<>>
  ELSE (IF Head(text) = old THEN new ELSE <<Head(text)>>)
       \o Replace(Tail(text), old, new)

\* ------------------------------------------------------------ JSON values

Val(t, s, n, items, fields) ==
  [t |-> t, s |-> s, n |-> n, items |-> items, fields |-> fields]

StrVal(s)      == Val("str", s, 0, <<>>, <<>>)
NumVal(n)      == Val("num", <<>>, n, <<>>, <<>>)
TrueVal        == Val("true", <<>>, 0, <<>>, <<>>)
FalseVal       == Val("false", <<>>, 0, <<>>, <<>>)
NullVal        == Val("null", <<>>, 0, <<>>, <<>>)
ListVal(items) == Val("list", <<>>, 0, items, <<>>)
ObjVal(fields) == Val("obj", <<>>, 0, <<>>, fields)

\* list(d.keys()): the keys of a dict in insertion order
Keys(d) == [i \in 1..Len(d.fields) |-> d.fields[i].k]

HasKey(d, key) == \E i \in 1..Len(d.fields) : d.fields[i].k = key

\* d[key] = v: a key already present keeps its place and takes the new value
DictSet(fields, key, v) ==
  IF \E i \in 1..Len(fields) : fields[i].k = key
  THEN [i \in 1..Len(fields) |->
          IF fields[i].k = key THEN [k |-> key, v |-> v] ELSE fields[i]]
  ELSE Append(fields, [k |-> key, v |-> v])

\* ----------------------------------------------------------------- tokens

Tok(k, s) == [k |-> k, s |-> s]
P(k)      == Tok(k, <<>>)
TStr(s)   == Tok("str", s)
TNum(s)   == Tok("num", s)
\* a byte that is not valid UTF-8
BadByte   == P("0xff")

\* The escapes json.dumps writes and json.loads reads inside a string.
RECURSIVE Escape(_)
Escape(s) ==
  IF s = <<>> THEN <<>>
  ELSE (CASE Head(s) = NL -> <<BS, "n">>
          [] Head(s) = CR -> <<BS, "r">>
          [] Head(s) = BS -> <<BS, BS>>
          [] Head(s) = QT -> <<BS, QT>>
          [] OTHER -> <<Head(s)>>) \o Escape(Tail(s))

\* A string token is well formed when it holds no raw control character or
\* quote and every backslash starts a known escape.
RECURSIVE ValidStr(_)
ValidStr(s) ==
  IF s = <<>> THEN TRUE
  ELSE IF Head(s) = BS
       THEN Len(s) >= 2 /\ s[2] \in {"n", "r", BS, QT} /\ ValidStr(Tail(Tail(s)))
       ELSE Head(s) \notin {NL, CR, QT} /\ ValidStr(Tail(s))

RECURSIVE Unescape(_)
Unescape(s) ==
  IF s = <<>> THEN <<>>
  ELSE IF Head(s) = BS
       THEN (CASE s[2] = "n" -> <<NL>>
               [] s[2] = "r" -> <<CR>>
               [] OTHER -> <<s[2]>>) \o Unescape(Tail(Tail(s)))
       ELSE <<Head(s)>> \o Unescape(Tail(s))

DigitValue(c) == (CHOOSE i \in 1..10 : Digits[i] = c) - 1

\* int(digits)
RECURSIVE ParseInt(_)
ParseInt(s) ==
  IF s = <<>> THEN 0
  ELSE 10 * ParseInt(SubSeq(s, 1, Len(s) - 1)) + DigitValue(s[Len(s)])

\* A number token: digits, with no leading zero.
ValidNum(s) ==
  /\ s # <<>>
  /\ \A i \in 1..Len(s) : \E j \in 1..10 : Digits[j] = s[i]
  /\ (Len(s) > 1 => s[1] # "0")

\* str(n) for n >= 0
RECURSIVE FormatInt(_)
FormatInt(n) ==
  IF n < 10 THEN <<Digits[n + 1]>>
  ELSE FormatInt(n \div 10) \o <<Digits[(n % 10) + 1]>>

\* ------------------------------------------------------- json.loads / dumps

Parsed(val, next) == [ok |-> TRUE, val |-> val, next |-> next]
NoParse           == [ok |-> FALSE, val |-> NullVal, next |-> 0]

KindAt(toks, i) == IF i <= Len(toks) THEN toks[i].k ELSE "eof"

\* The recursive-descent parser of json.loads over the tokens from index i.
\* AfterItem and AfterMember continue an array or an object once the value
\* r of its next element has been parsed.
RECURSIVE ParseValue(_, _), ParseItems(_, _, _), AfterItem(_, _, _)
RECURSIVE ParseMembers(_, _, _), AfterMember(_, _, _, _)
ParseValue(toks, i) ==
  LET k == KindAt(toks, i) IN
  CASE k = "str" ->
         IF ValidStr(toks[i].s)
         THEN Parsed(StrVal(Unescape(toks[i].s)), i + 1) ELSE NoParse
    [] k = "num" ->
         IF ValidNum(toks[i].s)
         THEN Parsed(NumVal(ParseInt(toks[i].s)), i + 1) ELSE NoParse
    [] k = "true"  -> Parsed(TrueVal, i + 1)
    [] k = "false" -> Parsed(FalseVal, i + 1)
    [] k = "null"  -> Parsed(NullVal, i + 1)
    [] k = "[" ->
         IF KindAt(toks, i + 1) = "]" THEN Parsed(ListVal(<<>>), i + 2)
         ELSE ParseItems(toks, i + 1, <<>>)
    [] k = "{" ->
         IF KindAt(toks, i + 1) = "}" THEN Parsed(ObjVal(<<>>), i + 2)
         ELSE ParseMembers(toks, i + 1, <<>>)
    [] OTHER -> NoParse

ParseItems(toks, i, acc) == AfterItem(toks, acc, ParseValue(toks, i))

AfterItem(toks, acc, r) ==
  IF ~r.ok THEN NoParse
  ELSE CASE KindAt(toks, r.next) = "," ->
              ParseItems(toks, r.next + 1, Append(acc, r.val))
         [] KindAt(toks, r.next) = "]" ->
              Parsed(ListVal(Append(acc, r.val)), r.next + 1)
         [] OTHER -> NoParse

ParseMembers(toks, i, acc) ==
  IF KindAt(toks, i) = "str" /\ ValidStr(toks[i].s) /\ KindAt(toks, i + 1) = ":"
  THEN AfterMember(toks, acc, Unescape(toks[i].s), ParseValue(toks, i + 2))
  ELSE NoParse

AfterMember(toks, acc, key, r) ==
  IF ~r.ok THEN NoParse
  ELSE CASE KindAt(toks, r.next) = "," ->
              ParseMembers(toks, r.next + 1, DictSet(acc, key, r.val))
         [] KindAt(toks, r.next) = "}" ->
              Parsed(ObjVal(DictSet(acc, key, r.val)), r.next + 1)
         [] OTHER -> NoParse

\* The end of json.loads: one value and nothing after it, else
\* JSONDecodeError.
WholeText(toks, r) ==
  IF r.ok /\ r.next = Len(toks) + 1
  THEN [exc |-> "none", val |-> r.val]
  ELSE [exc |-> "JSONDecodeError", val |-> NullVal]

\* json.loads(text)
json_loads(toks) == WholeText(toks, ParseValue(toks, 1))

\* json.dumps(value): the tokens of the JSON text (indentation is white
\* space between tokens and is not represented).
RECURSIVE json_dumps(_)
json_dumps(v) ==
  CASE v.t = "str" -> <<TStr(Escape(v.s))>>
    [] v.t = "num" -> <<TNum(FormatInt(v.n))>>
    [] v.t = "list" ->
         <<P("[")>>
         \o Join(<<P(",")>>, [i \in 1..Len(v.items) |-> json_dumps(v.items[i])])
         \o <<P("]")>>
    [] v.t = "obj" ->
         <<P("{")>>
         \o Join(<<P(",")>>,
                 [i \in 1..Len(v.fields) |->
                    <<TStr(Escape(v.fields[i].k)), P(":")>>
                    \o json_dumps(v.fields[i].v)])
         \o <<P("}")>>
    [] OTHER -> <<P(v.t)>>

\* ------------------------------------------------------------ file handles

\* An uploaded file: its bytes and how many of them have been read.
UploadedFile(bytes) == [bytes |-> bytes, pos |-> 0]

\* fp.read(): everything from the current position; the position moves to
\* the end of the file.
Read(file) == SubSeq(file.bytes, file.pos + 1, Len(file.bytes))

AtEnd(file) == [file EXCEPT !.pos = Len(file.bytes)]

\* Decoding as UTF-8 and parsing: bytes that are not UTF-8 raise
\* UnicodeDecodeError.
Decode(data) ==
  IF \E i \in 1..Len(data) : data[i] = BadByte
  THEN [exc |-> "UnicodeDecodeError", val |-> NullVal]
  ELSE json_loads(data)

\* json.load(fp): reads the rest of the file, decodes it and parses it.
json_load(file) == Decode(Read(file))

\* ------------------------------------------------------- conversion layer

Returned(s) == [exc |-> "none", s |-> s]
Raised(exc) == [exc |-> exc, s |-> <<>>]

\* bool(value): Python's truth value of a parsed JSON value
Truthy(v) ==
  CASE v.t = "str"  -> v.s # <<>>
    [] v.t = "num"  -> v.n # 0
    [] v.t = "true" -> TRUE
    [] v.t = "list" -> v.items # <<>>
    [] v.t = "obj"  -> v.fields # <<>>
    [] OTHER -> FALSE

\* Line 12 without the replacement: the text is returned as it is.
ReplaceNewlines_Unreplaced(text) ==
  IF ~Truthy(text) THEN Returned(<<>>)
  ELSE IF text.t = "str" THEN Returned(text.s)
  ELSE Raised("AttributeError")

\* Line 12: text.replace("\n", " | ") if text else "".  A truthy value that
\* is not a str has no .replace and raises AttributeError.
ReplaceNewlines(text) ==
  IF ~Truthy(text) THEN Returned(<<>>)
  ELSE IF text.t = "str" THEN Returned(Replace(text.s, NL, <<" ", "|", " ">>))
  ELSE Raised("AttributeError")

\* Line 11: ', '.join(text)
JoinItems(text) ==
  StrVal(Join(<<",", " ">>, [i \in 1..Len(text.items) |-> text.items[i].s]))

\* clean_multiline_field(text).  ', '.join raises TypeError when an element
\* of the list is not a str.
clean_multiline_field(text) ==
  IF text.t = "list"
  THEN IF \E i \in 1..Len(text.items) : text.items[i].t # "str"
       THEN Raised("TypeError")
       ELSE ReplaceNewlines(JoinItems(text))
  ELSE ReplaceNewlines(text)

\* json_data.get(column, "")
Get(json_data, column) ==
  IF HasKey(json_data, column)
  THEN json_data.fields[CHOOSE i \in 1..Len(json_data.fields) :
                           json_data.fields[i].k = column].v
  ELSE StrVal(<<>>)

RowOf(row)         == [exc |-> "none", at |-> "none", row |-> row]
RowRaised(exc, at) == [exc |-> exc, at |-> at, row |-> <<>>]

\* json_to_csv_rows looking the cells up by position instead of by name: the
\* i-th cell is the document's i-th field.
json_to_csv_rows_ByPosition(json_data, columns) ==
  IF columns = <<>> THEN RowOf(<<>>)
  ELSE IF json_data.t # "obj" THEN RowRaised("AttributeError", "json_data.get")
  ELSE RowOf([i \in 1..Len(columns) |->
                IF i <= Len(json_data.fields) /\ json_data.fields[i].v.t = "str"
                THEN Replace(json_data.fields[i].v.s, NL, <<" ", "|", " ">>)
                ELSE <<>>])

\* The loop of json_to_csv_rows over the cleaned cells: the first exception
\* of clean_multiline_field propagates, else the cells are the row.
CollectRow(cells) ==
  IF \E i \in 1..Len(cells) : cells[i].exc # "none"
  THEN RowRaised(cells[CHOOSE i \in 1..Len(cells) :
                         /\ cells[i].exc # "none"
                         /\ \A j \in 1..(i - 1) : cells[j].exc = "none"].exc,
                 "clean_multiline_field")
  ELSE RowOf([i \in 1..Len(cells) |-> cells[i].s])

\* json_to_csv_rows(json_data, columns): one cell per column, looked up by
\* name.  A value that is not a dict has no .get and raises AttributeError.
json_to_csv_rows(json_data, columns) ==
  IF columns = <<>> THEN RowOf(<<>>)
  ELSE IF json_data.t # "obj" THEN RowRaised("AttributeError", "json_data.get")
  ELSE CollectRow([i \in 1..Len(columns) |->
                     clean_multiline_field(Get(json_data, columns[i]))])

\* csv.writer's field: quoted when it holds the delimiter, the quote
\* character or a character of the line terminator; quotes are doubled.
CsvField(cell) ==
  IF \E i \in 1..Len(cell) : cell[i] \in {",", QT, CR, NL}
  THEN <<QT>> \o Replace(cell, QT, <<QT, QT>>) \o <<QT>>
  ELSE cell

\* writer.writerow(row): the fields joined by commas and ended by \r\n; a
\* row of one empty field is written as "".
writerow(row) ==
  (IF row = <<(<<>>)>> THEN <<QT, QT>>
   ELSE Join(<<",">>, [i \in 1..Len(row) |-> CsvField(row[i])]))
  \o <<CR, NL>>

ParseNotice(i)    == [kind |-> "parse", file |-> i]
CardinalityNotice == [kind |-> "cardinality", file |-> 0]

NoExport ==
  [kind |-> "none", rows |-> <<>>, text |-> <<>>, preview |-> <<>>,
   columns |-> <<>>, table |-> <<>>, data |-> <<>>]

\* What an encoder leaves behind: the exception that ended it (if any), the
\* file handles, the documents loaded, the errors shown and the export.
Outcome(exc, at, ld, notices, exported) ==
  [exc |-> exc, at |-> at, files |-> ld.files, docs |-> ld.docs,
   notices |-> ld.notices \o notices, export |-> exported]

\* The loading loop of the three encoders: every file is read from its
\* current position; a JSONDecodeError is reported with st.error and the
\* file skipped; any other exception leaves the loop and the encoder.
\* Loaded is the body of the loop for file i once json.load has answered r.
RECURSIVE LoadJsonFiles(_, _, _, _), Loaded(_, _, _, _, _)
LoadJsonFiles(json_files, i, docs, notices) ==
  IF i > Len(json_files)
  THEN [exc |-> "none", at |-> "none", files |-> json_files,
        docs |-> docs, notices |-> notices]
  ELSE Loaded([json_files EXCEPT ![i] = AtEnd(json_files[i])], i, docs,
              notices, json_load(json_files[i]))

Loaded(json_files, i, docs, notices, r) ==
  CASE r.exc = "none" ->
         LoadJsonFiles(json_files, i + 1, Append(docs, r.val), notices)
    [] r.exc = "JSONDecodeError" ->
         LoadJsonFiles(json_files, i + 1, docs, Append(notices, ParseNotice(i)))
    [] OTHER ->
         [exc |-> r.exc, at |-> "json.load", files |-> json_files,
          docs |-> docs, notices |-> notices]

\* ---------------------------------------------------------------- encoders

\* Lines 38-47: the header row, then the rows rs of the documents, handed to
\* writer.writerow one by one; text is what was written.
WriteCsv(rows) ==
  [NoExport EXCEPT !.kind = "csv", !.rows = rows,
                   !.text = Concat([k \in 1..Len(rows) |-> writerow(rows[k])])]

FirstRaised(rs) ==
  rs[CHOOSE j \in 1..Len(rs) :
       /\ rs[j].exc # "none"
       /\ \A k \in 1..(j - 1) : rs[k].exc = "none"]

CsvRows(ld, headers, rs) ==
  IF ld.exc # "none" THEN Outcome(ld.exc, ld.at, ld, <<>>, NoExport)
  ELSE IF \E j \in 1..Len(rs) : rs[j].exc # "none"
  THEN Outcome(FirstRaised(rs).exc, FirstRaised(rs).at, ld, <<>>, NoExport)
  ELSE Outcome("none", "none", ld, <<>>,
               WriteCsv(<<headers>> \o [j \in 1..Len(rs) |-> rs[j].row]))

MapRows(docs, headers) ==
  [j \in 1..Len(docs) |-> json_to_csv_rows(docs[j], headers)]

CsvOf(ld, headers) == CsvRows(ld, headers, MapRows(ld.docs, headers))

\* convert_multiple_json_to_csv(json_files, custom_headers)
convert_multiple_json_to_csv(json_files, headers) ==
  CsvOf(LoadJsonFiles(json_files, 1, <<>>, <<>>), headers)

\* The keys of a list of dicts in order of first appearance.
RECURSIVE UnionKeys(_, _)
UnionKeys(docs, acc) ==
  IF docs = <<>> THEN acc
  ELSE UnionKeys(Tail(docs),
                 acc \o SelectSeq(Keys(Head(docs)),
                                  LAMBDA k : \A i \in 1..Len(acc) : acc[i] # k))

NaN == Val("nan", <<>>, 0, <<>>, <<>>)

\* The frame of a list of dicts: one column per key and one row per dict,
\* NaN where a dict lacks the key.
Frame(docs, columns) ==
  [exc |-> "none", columns |-> columns,
   rows |-> [j \in 1..Len(docs) |->
               [c \in 1..Len(columns) |->
                  IF HasKey(docs[j], columns[c])
                  THEN Get(docs[j], columns[c]) ELSE NaN]]]

\* pd.DataFrame(json_data_list), as the set of frames it may give.  What a
\* list holding a value that is not a dict gives is not fixed by this
\* program: the constructor raises or builds a frame with a positional
\* column.
DataFrames(docs) ==
  IF \A j \in 1..Len(docs) : docs[j].t = "obj"
  THEN {Frame(docs, UnionKeys(docs, <<>>))}
  ELSE {[exc |-> "ValueError", columns |-> <<>>, rows |-> <<>>],
        [exc |-> "none", columns |-> <<(<<"0">>)>>,
         rows |-> [j \in 1..Len(docs) |-> <<docs[j]>>]]}

\* Lines 66-69 without the count check: the labels are always replaced.
RenameColumns_Unchecked(columns, headers) ==
  [columns |-> headers, notices |-> <<>>]

\* Lines 66-69: the labels are replaced when the counts agree, else the
\* mismatch is reported and the labels stay.
RenameColumns(columns, headers) ==
  IF Len(headers) = Len(columns)
  THEN [columns |-> headers, notices |-> <<>>]
  ELSE [columns |-> columns, notices |-> <<CardinalityNotice>>]

\* Lines 71-75: the sheet written from the frame's rows under the labels.
ToExcel(df, rn) ==
  [exc |-> "none", notices |-> rn.notices,
   export |-> [NoExport EXCEPT !.kind = "xlsx", !.columns = rn.columns,
                               !.table = df.rows]]

ExcelOf(ld, df, sheet) ==
  IF ld.exc # "none" THEN Outcome(ld.exc, ld.at, ld, <<>>, NoExport)
  ELSE IF df.exc # "none"
  THEN Outcome(df.exc, "pd.DataFrame", ld, <<>>, NoExport)
  ELSE Outcome("none", "none", ld, sheet.notices, sheet.export)

\* convert_json_to_excel(json_files, custom_headers) for a frame df of
\* DataFrames(json_data_list).
convert_json_to_excel(json_files, headers, df) ==
  ExcelOf(LoadJsonFiles(json_files, 1, <<>>, <<>>), df,
          ToExcel(df, RenameColumns(df.columns, headers)))

JsonOf(ld) ==
  IF ld.exc # "none" THEN Outcome(ld.exc, ld.at, ld, <<>>, NoExport)
  ELSE Outcome("none", "none", ld, <<>>,
               [NoExport EXCEPT !.kind = "json",
                                !.data = json_dumps(ListVal(ld.docs))])

\* convert_json_to_json(json_files): the loaded documents as one JSON array.
convert_json_to_json(json_files) ==
  JsonOf(LoadJsonFiles(json_files, 1, <<>>, <<>>))

\* ------------------------------------------------------------ header edits

Whitespace == {" ", NL, CR, "\t"}

\* text.split(sep) for a one-character sep
RECURSIVE Split(_, _, _)
Split(text, sep, cur) ==
  IF text = <<>> THEN <<cur>>
  ELSE IF Head(text) = sep THEN <<cur>> \o Split(Tail(text), sep, <<>>)
  ELSE Split(Tail(text), sep, Append(cur, Head(text)))

\* header.strip()
RECURSIVE Strip(_)
Strip(text) ==
  IF text = <<>> THEN <<>>
  ELSE IF Head(text) \in Whitespace THEN Strip(Tail(text))
  ELSE IF text[Len(text)] \in Whitespace
       THEN Strip(SubSeq(text, 1, Len(text) - 1))
  ELSE text

StripAll(pieces) == [i \in 1..Len(pieces) |-> Strip(pieces[i])]

\* Lines 126-132: the text of the box, split on commas, each piece stripped,
\* the empty ones dropped.
ParseHeaders(text) ==
  SelectSeq(StripAll(Split(text, ",", <<>>)), LAMBDA h : h # <<>>)

\* The initial text of the box: ', '.join(default_headers)
DefaultText(headers) == Join(<<",", " ">>, headers)

\* ------------------------------------------------------------------ inputs

KA == <<"a">>
KB == <<"b">>
KC == <<"c">>

\* {"a": "x\ny", "b": "z"}
DocText ==
  <<P("{"), TStr(KA), P(":"), TStr(<<"x", BS, "n", "y">>), P(","),
    TStr(KB), P(":"), TStr(<<"z">>), P("}")>>

\* {"a": 1, "b": "x\ny"}
DocNumber ==
  <<P("{"), TStr(KA), P(":"), TNum(<<"1">>), P(","),
    TStr(KB), P(":"), TStr(<<"x", BS, "n", "y">>), P("}")>>

\* {"a": "x\ny", "b": ["p\nq", "r"], "c": "z"}
DocList ==
  <<P("{"), TStr(KA), P(":"), TStr(<<"x", BS, "n", "y">>), P(","),
    TStr(KB), P(":"),
    P("["), TStr(<<"p", BS, "n", "q">>), P(","), TStr(<<"r">>), P("]"), P(","),
    TStr(KC), P(":"), TStr(<<"z">>), P("}")>>

\* {"a": ["p", 2]}
DocMixedList ==
  <<P("{"), TStr(KA), P(":"),
    P("["), TStr(<<"p">>), P(","), TNum(<<"2">>), P("]"), P("}")>>

\* {"a": null, "b": false, "c": 0}
DocFalsy ==
  <<P("{"), TStr(KA), P(":"), P("null"), P(","),
    TStr(KB), P(":"), P("false"), P(","),
    TStr(KC), P(":"), TNum(<<"0">>), P("}")>>

\* {"a": true}
DocTrue == <<P("{"), TStr(KA), P(":"), P("true"), P("}")>>

\* {"a":          (the text ends early: not JSON)
Truncated == <<P("{"), TStr(KA), P(":")>>

\* ["x"]          (JSON, but not an object)
TopArray == <<P("["), TStr(<<"x">>), P("]")>>

\* a file whose bytes are not UTF-8
NotUtf8 == <<BadByte>>

SampleFiles ==
  {DocText, DocNumber, DocList, DocMixedList, DocFalsy, DocTrue,
   Truncated, TopArray, NotUtf8}

\* What the user may leave in the header box: the detected headers as they
\* are, the first one renamed, one more header, the last one removed, and
\* the detected headers with a stray comma and blanks.
HeaderTexts(headers) ==
  {DefaultText(headers),
   DefaultText([headers EXCEPT ![1] = <<"h">>]),
   DefaultText(Append(headers, <<"e">>)),
   DefaultText(SubSeq(headers, 1, Len(headers) - 1)),
   DefaultText(headers) \o <<",", " ", ",">>}

\* ------------------------------------------------------------------- state

VARIABLES
  uploaded_files,   \* the file handles of the uploader, in upload order
  pc,               \* where the script run is
  default_headers,  \* line 116 / 119
  custom_headers,   \* line 132
  file_format,      \* the format chosen in the select box
  json_data_list,   \* the documents the encoder loaded
  notices,          \* the st.error messages of the run, in order
  export,           \* what the download button was given
  raised            \* the exception that ended the run, if one did

vars ==
  <<uploaded_files, pc, default_headers, custom_headers, file_format,
    json_data_list, notices, export, raised>>

NoException == [exc |-> "none", at |-> "none"]

Init ==
  /\ uploaded_files = <<>>
  /\ pc = "upload"
  /\ default_headers = <<>>
  /\ custom_headers = <<>>
  /\ file_format = "none"
  /\ json_data_list = <<>>
  /\ notices = <<>>
  /\ export = NoExport
  /\ raised = NoException

\* The user adds a file to the uploader (line 107).
Upload(bytes) ==
  /\ pc = "upload"
  /\ Len(uploaded_files) < MaxFiles
  /\ uploaded_files' = Append(uploaded_files, UploadedFile(bytes))
  /\ UNCHANGED <<pc, default_headers, custom_headers, file_format,
                 json_data_list, notices, export, raised>>

\* The script runs: with no file it only warns (lines 110, 175-176).
Run ==
  /\ pc = "upload"
  /\ pc' = IF uploaded_files # <<>> THEN "detect" ELSE "done"
  /\ UNCHANGED <<uploaded_files, default_headers, custom_headers, file_format,
                 json_data_list, notices, export, raised>>

\* Lines 116-119 once json.load has answered first_json: its keys are the
\* default headers.  A JSONDecodeError is reported and leaves no headers; a
\* value without .keys() raises AttributeError, and bytes that are not UTF-8
\* UnicodeDecodeError, neither of which is caught.  Without headers the run
\* shows nothing more (line 121).
Detected(first_json) ==
  CASE first_json.exc = "JSONDecodeError" ->
         /\ notices' = Append(notices, ParseNotice(1))
         /\ default_headers' = <<>>
         /\ pc' = "done"
         /\ raised' = raised
    [] first_json.exc = "UnicodeDecodeError" ->
         /\ pc' = "aborted"
         /\ raised' = [exc |-> "UnicodeDecodeError", at |-> "json.load"]
         /\ UNCHANGED <<notices, default_headers>>
    [] first_json.exc = "none" /\ first_json.val.t # "obj" ->
         /\ pc' = "aborted"
         /\ raised' = [exc |-> "AttributeError", at |-> "first_json.keys"]
         /\ UNCHANGED <<notices, default_headers>>
    [] OTHER ->
         /\ default_headers' = Keys(first_json.val)
         /\ pc' = IF Keys(first_json.val) # <<>> THEN "edit" ELSE "done"
         /\ UNCHANGED <<notices, raised>>

\* Lines 113-121: the first file is read to its end and parsed.
DetectHeaders ==
  /\ pc = "detect"
  /\ uploaded_files' = [uploaded_files EXCEPT ![1] = AtEnd(uploaded_files[1])]
  /\ Detected(json_load(uploaded_files[1]))
  /\ UNCHANGED <<custom_headers, file_format, json_data_list, export>>

\* Lines 126-132: the header box holds the user's text and the headers are
\* read from it.
EditHeaders ==
  /\ pc = "edit"
  /\ \E text \in HeaderTexts(default_headers) :
       custom_headers' = ParseHeaders(text)
  /\ pc' = "select"
  /\ UNCHANGED <<uploaded_files, default_headers, file_format, json_data_list,
                 notices, export, raised>>

PreviewLines == 6

FirstLines(lines) ==
  SubSeq(lines, 1, IF Len(lines) < PreviewLines THEN Len(lines)
                   ELSE PreviewLines)

\* Lines 170-173: csv_output.decode('utf-8').split('\n', 6)[:6]
Preview(exported) ==
  IF exported.kind = "csv"
  THEN [exported EXCEPT !.preview = FirstLines(Split(exported.text, NL, <<>>))]
  ELSE exported

\* The end of an export: the download button is given the encoder's output,
\* or the exception it raised ends the run.
Finish(r) ==
  /\ uploaded_files' = r.files
  /\ json_data_list' = r.docs
  /\ notices' = notices \o r.notices
  /\ raised' = [exc |-> r.exc, at |-> r.at]
  /\ export' = Preview(r.export)
  /\ pc' = IF r.exc = "none" THEN "done" ELSE "aborted"

\* Lines 141-149 and 170-173: CSV is selected.
ExportCSV ==
  /\ pc = "select"
  /\ file_format' = "CSV"
  /\ Finish(convert_multiple_json_to_csv(uploaded_files, custom_headers))
  /\ UNCHANGED <<default_headers, custom_headers>>

\* Lines 150-158: Excel is selected.
ExportExcel ==
  /\ pc = "select"
  /\ file_format' = "Excel (.xlsx)"
  /\ \E df \in DataFrames(LoadJsonFiles(uploaded_files, 1, <<>>, <<>>).docs) :
       Finish(convert_json_to_excel(uploaded_files, custom_headers, df))
  /\ UNCHANGED <<default_headers, custom_headers>>

\* Lines 159-167: JSON is selected.
ExportJSON ==
  /\ pc = "select"
  /\ file_format' = "JSON"
  /\ Finish(convert_json_to_json(uploaded_files))
  /\ UNCHANGED <<default_headers, custom_headers>>

Next ==
  \/ \E bytes \in SampleFiles : Upload(bytes)
  \/ Run
  \/ DetectHeaders
  \/ EditHeaders
  \/ ExportCSV
  \/ ExportExcel
  \/ ExportJSON

Spec == Init /\ [][Next]_vars

\* ------------------------------------------------------------- properties

\* The number of times the character c occurs in text.
RECURSIVE Count(_, _)
Count(c, text) ==
  IF text = <<>> THEN 0
  ELSE (IF Head(text) = c THEN 1 ELSE 0) + Count(c, Tail(text))

CountOf(seq, x) == Cardinality({i \in 1..Len(seq) : seq[i] = x})

Contains(text, c) == \E i \in 1..Len(text) : text[i] = c

\* What a file holds, whatever has been read of it already.
Content(file) == Decode(file.bytes)

Files == 1..Len(uploaded_files)

\* The files no parse error was reported for, in upload order, and their
\* documents.
Unreported ==
  SelectSeq(uploaded_files,
            LAMBDA f : \A i \in Files :
                         uploaded_files[i] = f => CountOf(notices, ParseNotice(i)) = 0)

\* The documents of the files that hold valid JSON, in upload order.
ValidFiles == SelectSeq(uploaded_files, LAMBDA f : Content(f).exc = "none")
ValidDocs  == [i \in 1..Len(ValidFiles) |-> Content(ValidFiles[i]).val]

\* The entries of an export: data rows, table rows or array elements.
Entries ==
  CASE export.kind = "csv"  -> Len(export.rows) - 1
    [] export.kind = "xlsx" -> Len(export.table)
    [] export.kind = "json" -> Len(json_loads(export.data).val.items)
    [] OTHER -> 0

\* C1: once the delimited-text encoder has been invoked, it has returned an
\* output; every file whose bytes are not valid JSON has exactly one parse
\* error reported and no file has more than one; the output is the header
\* row followed by exactly one data row for each file that parsed, in input
\* order.
C1_InvalidFilesSkippedAndReported ==
  file_format = "CSV" =>
    /\ export.kind = "csv"
    /\ \A i \in Files :
         /\ CountOf(notices, ParseNotice(i)) <= 1
         /\ Content(uploaded_files[i]).exc # "none"
              => CountOf(notices, ParseNotice(i)) = 1
    /\ export.rows[1] = custom_headers
    /\ Len(export.rows) = 1 + Len(uploaded_files) - Len(notices)
    /\ Len(json_data_list) = Len(uploaded_files) - Len(notices)
    /\ \A k \in 1..Len(json_data_list) :
         export.rows[k + 1] = json_to_csv_rows(json_data_list[k], custom_headers).row

\* C2: when a request has produced an export, no parse error is reported for
\* a file that holds valid JSON, and the export has one entry for every such
\* file, the first file included, in upload order.
C2_ExportCoversEveryValidFile ==
  (pc = "done" /\ export.kind # "none") =>
    /\ \A i \in Files :
         Content(uploaded_files[i]).exc = "none"
           => CountOf(notices, ParseNotice(i)) = 0
    /\ json_data_list = ValidDocs
    /\ Entries = Len(ValidDocs)

\* C3: for every parsed document (a JSON object) handed to the row mapper and
\* the header list in use, json_to_csv_rows returns a row, and its length is
\* len(headers), whatever kinds of values the document holds.
C3_RowLengthIsHeaderCount ==
  (file_format = "CSV" /\ raised.at # "json.load") =>
    \A j \in 1..Len(json_data_list) :
      json_data_list[j].t = "obj" =>
        /\ json_to_csv_rows(json_data_list[j], custom_headers).exc = "none"
        /\ Len(json_to_csv_rows(json_data_list[j], custom_headers).row)
             = Len(custom_headers)

\* C4: the field normalizer clean_multiline_field never raises an exception.
C4_NormalizerNeverRaises ==
  raised.at # "clean_multiline_field"

\* The text the normalizer works on when the value holds text: the string
\* itself, or the elements of a list of strings joined with ", ".
HoldsText(v) ==
  \/ v.t = "str"
  \/ v.t = "list" /\ \A i \in 1..Len(v.items) : v.items[i].t = "str"

TextOf(v) == IF v.t = "str" THEN v.s ELSE JoinItems(v).s

C6_JsonRoundTrip ==
  file_format = "JSON" =>
    /\ export.kind = "json"
    /\ json_loads(export.data).exc = "none"
    /\ json_loads(export.data).val = ListVal(json_data_list)
    /\ json_data_list = [i \in 1..Len(Unreported) |-> Content(Unreported[i]).val]
    /\ json_data_list = <<>> => export.data = <<P("["), P("]")>>

\* C7: in the spreadsheet encoder, for documents that are all objects, the
\* sheet is produced; its labels are the headers when len(headers) equals
\* the number of inferred columns, and no cardinality error is reported;
\* otherwise exactly one cardinality error is reported and the labels are
\* the inferred ones.  The other two encoders never report that error.
C7_HeaderCardinality ==
  /\ file_format \in {"CSV", "JSON"} => CountOf(notices, CardinalityNotice) = 0
  /\ (/\ file_format = "Excel (.xlsx)"
      /\ raised.at # "json.load"
      /\ \A j \in 1..Len(json_data_list) : json_data_list[j].t = "obj") =>
       /\ export.kind = "xlsx"
       /\ Len(export.table) = Len(json_data_list)
       /\ IF Len(custom_headers) = Len(UnionKeys(json_data_list, <<>>))
          THEN /\ export.columns = custom_headers
               /\ CountOf(notices, CardinalityNotice) = 0
          ELSE /\ export.columns = UnionKeys(json_data_list, <<>>)
               /\ CountOf(notices, CardinalityNotice) = 1

\* C7 witness: headers a, b, e against the inferred columns a, b: the error
\* is reported and the sheet keeps the labels a, b.
C7_Witness ==
  /\ export.kind = "xlsx"
  /\ custom_headers = <<KA, KB, <<"e">> >>
  /\ export.columns = <<KA, KB>>
  /\ Len(export.table) = 1
  /\ CountOf(notices, CardinalityNotice) = 1

\* C8: a file that holds valid JSON whose top level is not an object never
\* ends the run with an exception, and is never among the documents the
\* encoder works on.
C8_NonObjectIsParseError ==
  /\ raised.at \notin {"first_json.keys", "json_data.get", "pd.DataFrame"}
  /\ \A j \in 1..Len(json_data_list) : json_data_list[j].t = "obj"

\* C9: a run that ends without an exception on a request with files has
\* produced an export, and its default headers are the keys of the first
\* uploaded file that holds a valid document.
C9_HeadersFromFirstValidFile ==
  (pc = "done" /\ uploaded_files # <<>>) =>
    /\ export.kind # "none"
    /\ \A i \in Files :
         (/\ Content(uploaded_files[i]).exc = "none"
          /\ Content(uploaded_files[i]).val.t = "obj"
          /\ \A k \in 1..(i - 1) :
               ~(/\ Content(uploaded_files[k]).exc = "none"
                 /\ Content(uploaded_files[k]).val.t = "obj"))
           => default_headers = Keys(Content(uploaded_files[i]).val)

\* C10: in the delimited-text encoder the cell of document d under header h
\* is the empty string whenever h is not a key of d; the header row is the
\* header list and every row has one cell per header, in the headers' order
\* (the cell under h is the normalized d[h] when h is a key).
C10_CellsLookedUpByHeaderName ==
  file_format = "CSV" =>
    /\ \A j \in 1..Len(json_data_list) : \A i \in 1..Len(custom_headers) :
         (json_data_list[j].t = "obj"
          /\ ~HasKey(json_data_list[j], custom_headers[i])) =>
           /\ clean_multiline_field(Get(json_data_list[j], custom_headers[i]))
                = Returned(<<>>)
           /\ export.kind = "csv" => export.rows[j + 1][i] = <<>>
    /\ export.kind = "csv" =>
         /\ export.rows[1] = custom_headers
         /\ Len(export.rows) = 1 + Len(json_data_list)
         /\ \A k \in 1..Len(export.rows) : Len(export.rows[k]) = Len(custom_headers)
         /\ \A j \in 1..Len(json_data_list) : \A i \in 1..Len(custom_headers) :
              (json_data_list[j].t = "obj"
               /\ HasKey(json_data_list[j], custom_headers[i])) =>
                export.rows[j + 1][i]
                  = clean_multiline_field(Get(json_data_list[j], custom_headers[i])).s

\* C10 witness: the first header was renamed to h; the header row shows h
\* and the column under it is empty although the document's first field
\* holds text.
C10_Witness ==
  /\ export.kind = "csv"
  /\ default_headers = <<KA, KB>>
  /\ custom_headers = <<(<<"h">>), KB>>
  /\ export.rows[1] = <<(<<"h">>), KB>>
  /\ Len(export.rows) = 2
  /\ json_data_list[1].fields[1].v = StrVal(<<"x", NL, "y">>)
  /\ export.rows[2] = <<(<<>>), <<"z">> >>

====
